---- MODULE Spec2Model ----
(***************************************************************************)
(* A model of virtex's configuration store (src/virtex/config.py, class    *)
(* Config on top of yacs' CfgNode) and of the word-and-position embedding  *)
(* (src/viswsl/modules/embedding.py, WordAndPositionalEmbedding).          *)
(*                                                                         *)
(* Python values are records [t, n, s, l]: t is the Python type name, n    *)
(* the number of an int, a bool (0/1) or a float (in hundredths: 0.15 is   *)
(* 15), s the text of a str, l the items of a list or tuple.               *)
(***************************************************************************)
EXTENDS Integers, Sequences, FiniteSets

VARIABLES
    \* ---- Config.__init__ and the frozen object
    pc,            \* the statement of Config.__init__ about to run
    yacsNone,      \* whether the installed yacs admits None <-> valid type
    config_file,   \* "None", "yaml" (a well-formed file) or "malformed"
    tree,          \* self._C: leaf dot-path -> value
    fileRaw,       \* key -> the value the file gave for it, or Unset
    listRaw,       \* key -> the value of the last pair of the list naming it, or Unset
    noneSeen,      \* the keys at which an override has stored None
    nFile,         \* entries of the file merged so far
    nList,         \* pairs of override_list merged so far
    err,           \* the exception that ended construction and the override
                   \* that raised it, or NoError
    stages,        \* the stages that have run, in order
    derivedSaw,    \* the trees add_derived_params was called on, in order
    objDict,       \* the Config object's own __dict__ besides _C
    lastWrite,     \* the last attribute write attempted on the frozen object
    dumped,        \* the YAML document Config.dump wrote, or NoFile
    reloaded,      \* the outcome of Config(config_file = the dumped file)
    \* ---- WordAndPositionalEmbedding
    params,        \* the learned tables and the layer-norm parameters
    cache,         \* lru_cache of make_position_indices, least recent first
    call,          \* the last call: the method, its arguments, the tables then
    posOut,        \* what make_position_indices returned last, and whether cached
    out            \* what the last forward returned or raised

cfgVars == <<pc, yacsNone, config_file, tree, fileRaw, listRaw, noneSeen,
             nFile, nList,
             err, stages, derivedSaw, objDict, lastWrite, dumped, reloaded>>
embVars == <<params, cache, call, posOut, out>>
vars == <<cfgVars, embVars>>

(***************************************************************************)
(* Bounds of the model.                                                    *)
(***************************************************************************)
MaxFile == 2
MaxList == 2

(***************************************************************************)
(* Python values.                                                          *)
(***************************************************************************)
V(t, n, s, l) == [t |-> t, n |-> n, s |-> s, l |-> l]
PyInt(n) == V("int", n, "", <<>>)
PyFloat(c) == V("float", c, "", <<>>)
PyStr(s) == V("str", 0, s, <<>>)
PyList(l) == V("list", 0, "", l)
PyTuple(l) == V("tuple", 0, "", l)
PyNone == V("NoneType", 0, "", <<>>)
CfgNode == V("CfgNode", 0, "", <<>>)
Unset == V("unset", 0, "", <<>>)

(***************************************************************************)
(* The schema: one key of each type and each nesting depth that            *)
(* Config.__init__ declares, with the default it assigns.                  *)
(***************************************************************************)
RANDOM_SEED == <<"RANDOM_SEED">>
DATA_ROOT == <<"DATA", "ROOT">>
MASK_PROPORTION == <<"DATA", "WORD_MASKING", "MASK_PROPORTION">>
MASK_PROBABILITY == <<"DATA", "WORD_MASKING", "MASK_PROBABILITY">>
REPLACE_PROBABILITY == <<"DATA", "WORD_MASKING", "REPLACE_PROBABILITY">>
BATCH_SIZE == <<"OPTIM", "BATCH_SIZE">>
LR_STEPS == <<"OPTIM", "LR_STEPS">>

\* The keys in the order yaml's dump writes them (sorted).
SchemaOrder ==
    <<DATA_ROOT, MASK_PROBABILITY, MASK_PROPORTION, REPLACE_PROBABILITY,
      BATCH_SIZE, LR_STEPS, RANDOM_SEED>>

SchemaKeys == {SchemaOrder[i] : i \in 1..Len(SchemaOrder)}

Defaults ==
    [p \in SchemaKeys |->
        CASE p = RANDOM_SEED -> PyInt(0)
          [] p = DATA_ROOT -> PyStr("datasets/coco")
          [] p = MASK_PROPORTION -> PyFloat(15)
          [] p = MASK_PROBABILITY -> PyFloat(85)
          [] p = REPLACE_PROBABILITY -> PyFloat(10)
          [] p = BATCH_SIZE -> PyInt(256)
          [] p = LR_STEPS -> PyList(<<>>)]

\* Two dot-paths the schema does not declare.
NONEXISTENT_FIELD == <<"DATA", "NONEXISTENT_FIELD">>
NONEXISTENT_TOP == <<"NONEXISTENT", "KEY">>
Ov(path, raw) == [path |-> path, raw |-> raw]

\* The overrides a file or an override list may hold, with the value as
\* yaml.safe_load or the caller hands it over (a command line hands over
\* strings): values of the key's type, values of another type, a tuple for
\* a list, None, a value for a subtree, and two undeclared paths.
Overrides ==
    {Ov(BATCH_SIZE, PyInt(512)), Ov(BATCH_SIZE, PyInt(1024)),
     Ov(BATCH_SIZE, PyStr("123")), Ov(BATCH_SIZE, PyFloat(150)),
     Ov(BATCH_SIZE, PyStr("None")),
     Ov(RANDOM_SEED, PyInt(512)),
     Ov(DATA_ROOT, PyStr("coco")), Ov(DATA_ROOT, PyStr("'123'")),
     Ov(DATA_ROOT, PyStr("123")), Ov(DATA_ROOT, PyStr("None")),
     Ov(MASK_PROPORTION, PyFloat(150)), Ov(MASK_PROPORTION, PyInt(512)),
     Ov(MASK_PROBABILITY, PyFloat(150)),
     Ov(LR_STEPS, PyStr("(1, 2)")),
     Ov(<<"OPTIM">>, PyInt(512)),
     Ov(NONEXISTENT_FIELD, PyInt(512)), Ov(NONEXISTENT_TOP, PyInt(512))}

(***************************************************************************)
(* yacs: CfgNode._decode_cfg_value, _check_and_coerce_cfg_value_type and   *)
(* the merge of one override.                                              *)
(***************************************************************************)
\* ast.literal_eval on the strings of the model; Unset when it raises
\* ValueError or SyntaxError.
literal_eval(s) ==
    CASE s = "123" -> PyInt(123)
      [] s = "'123'" -> PyStr("123")
      [] s = "(1, 2)" -> PyTuple(<<1, 2>>)
      [] s = "None" -> PyNone
      [] OTHER -> Unset

\* Strings are evaluated as Python literals; what does not evaluate stays
\* the string it was. Other values pass through.
_decode_cfg_value(v) ==
    IF v.t # "str" THEN v
    ELSE IF literal_eval(v.s) = Unset THEN v ELSE literal_eval(v.s)

ValidTypes == {"tuple", "list", "str", "int", "float", "bool", "NoneType"}

\* A type check that lets every replacement through.
CoerceAnything(replacement, original, noneOk) ==
    [ok |-> TRUE, value |-> replacement]

\* The replacement when its type is the original's, None when the installed
\* yacs admits it, a list for a tuple and a tuple for a list; otherwise the
\* ValueError for a type mismatch.
_check_and_coerce_cfg_value_type(replacement, original, noneOk) ==
    IF replacement.t = original.t
    THEN [ok |-> TRUE, value |-> replacement]
    ELSE IF noneOk /\ (  (replacement.t = "NoneType" /\ original.t \in ValidTypes)
                      \/ (original.t = "NoneType" /\ replacement.t \in ValidTypes))
    THEN [ok |-> TRUE, value |-> replacement]
    ELSE IF replacement.t = "tuple" /\ original.t = "list"
    THEN [ok |-> TRUE, value |-> PyList(replacement.l)]
    ELSE IF replacement.t = "list" /\ original.t = "tuple"
    THEN [ok |-> TRUE, value |-> PyTuple(replacement.l)]
    ELSE [ok |-> FALSE, value |-> replacement]

\* The subtrees of a tree: the proper prefixes of its keys.
Sections(t) ==
    UNION {{SubSeq(p, 1, i) : i \in 1..(Len(p) - 1)} : p \in DOMAIN t}

\* d[subkey] along the path: a subtree, a leaf, or nothing.
HasKey(t, path) == path \in DOMAIN t \/ path \in Sections(t)
Lookup(t, path) == IF path \in DOMAIN t THEN t[path] ELSE CfgNode

\* Every segment of the path names a key of the node reached so far.
PathExists(t, path) == \A i \in 1..Len(path) : HasKey(t, SubSeq(path, 1, i))

\* t with path bound to value, whether or not path was a key of t.
Put(t, path, value) ==
    [p \in DOMAIN t \cup {path} |-> IF p = path THEN value ELSE t[p]]

\* A merge that creates the keys it does not find.
MergeOneAllowNew(t, path, raw, noneOk, missing) ==
    IF ~(path \in DOMAIN t \/ path \in Sections(t))
    THEN [err |-> "none", tree |-> Put(t, path, _decode_cfg_value(raw))]
    ELSE LET c == _check_and_coerce_cfg_value_type(
                      _decode_cfg_value(raw), Lookup(t, path), noneOk)
         IN IF ~c.ok
            THEN [err |-> "TypeMismatch", tree |-> t]
            ELSE [err |-> "none", tree |-> Put(t, path, c.value)]

\* One override: a missing key raises `missing`, a value of another type
\* raises the type mismatch, and otherwise the decoded, coerced value is
\* stored at the path.
MergeOne(t, path, raw, noneOk, missing) ==
    IF ~PathExists(t, path)
    THEN [err |-> missing, tree |-> t]
    ELSE LET c == _check_and_coerce_cfg_value_type(
                      _decode_cfg_value(raw), Lookup(t, path), noneOk)
         IN IF ~c.ok
            THEN [err |-> "TypeMismatch", tree |-> t]
            ELSE [err |-> "none", tree |-> Put(t, path, c.value)]

\* One (key, value) of the file, as CfgNode.merge_from_file merges it:
\* a missing key is a KeyError.
merge_from_file(t, path, raw, noneOk) ==
    MergeOne(t, path, raw, noneOk, "KeyError")

\* A list merge that leaves alone a key an earlier stage has moved off its
\* default.
merge_from_list_keep(t, path, raw, noneOk) ==
    LET r == MergeOne(t, path, raw, noneOk, "AssertionError")
    IN IF r.err = "none" /\ path \in SchemaKeys /\ t[path] # Defaults[path]
       THEN [err |-> "none", tree |-> t]
       ELSE r

\* One (dot-path, value) pair, as CfgNode.merge_from_list merges it:
\* a missing key is an AssertionError.
merge_from_list(t, path, raw, noneOk) ==
    MergeOne(t, path, raw, noneOk, "AssertionError")

UnknownKeyErrors == {"KeyError", "AssertionError"}

(***************************************************************************)
(* yaml.safe_dump and yaml.safe_load of one value: a node carries the tag  *)
(* the text resolves to (a str that reads as a number is written quoted),  *)
(* and a tuple is written as a sequence.                                   *)
(***************************************************************************)
safe_dump(v) ==
    CASE v.t = "int" -> V("!!int", v.n, "", <<>>)
      [] v.t = "float" -> V("!!float", v.n, "", <<>>)
      [] v.t = "bool" -> V("!!bool", v.n, "", <<>>)
      [] v.t = "str" -> V("!!str", 0, v.s, <<>>)
      [] v.t \in {"list", "tuple"} -> V("!!seq", 0, "", v.l)
      [] v.t = "NoneType" -> V("!!null", 0, "", <<>>)

safe_load(node) ==
    CASE node.t = "!!int" -> PyInt(node.n)
      [] node.t = "!!float" -> PyFloat(node.n)
      [] node.t = "!!bool" -> V("bool", node.n, "", <<>>)
      [] node.t = "!!str" -> PyStr(node.s)
      [] node.t = "!!seq" -> PyList(node.l)
      [] node.t = "!!null" -> PyNone

NoFile == [p \in {} |-> Unset]

\* CfgNode.dump: every key of the tree, each value through safe_dump.
CfgDump(t) == [p \in DOMAIN t |-> safe_dump(t[p])]

\* merge_from_file over the first k keys of a dumped document, in the
\* order the document lists them; the first error ends the merge.
RECURSIVE MergeDocument(_, _, _, _)
MergeDocument(t, doc, k, noneOk) ==
    IF k = 0 THEN [err |-> "none", tree |-> t]
    ELSE LET before == MergeDocument(t, doc, k - 1, noneOk)
             path == SchemaOrder[k]
         IN IF before.err # "none" \/ path \notin DOMAIN doc
            THEN before
            ELSE merge_from_file(before.tree, path, safe_load(doc[path]), noneOk)

\* Config(config_file = doc): the defaults, then the file; no list.
ConfigFromFile(doc, noneOk) ==
    MergeDocument(Defaults, doc, Len(SchemaOrder), noneOk)

(***************************************************************************)
(* WordAndPositionalEmbedding. The instance of the model has two tokens    *)
(* (the padding token and one word), two positions and vectors of two      *)
(* components; numbers are integers.                                       *)
(***************************************************************************)
VocabSize == 2
HiddenSize == 2
MaxSeqLen == 2
PaddingIdx == 0
\* maxsize of the lru_cache (128 in the source), scaled down so that the
\* calls of the model fill the cache and evict.
LruMaxSize == 2

Instances == {"m1", "m2"}
Devices == {"cpu", "cuda:0"}
BatchSizes == {1, 2}

Vec(a, b) == <<a, b>>
Table(r0, r1) == [i \in 0..1 |-> IF i = 0 THEN r0 ELSE r1]

\* The learned state: the word table (row PaddingIdx is the padding row),
\* the position table, and LayerNorm's weight and bias.
ParamSets ==
    {[words |-> w, positions |-> n[1], weight |-> n[2], bias |-> n[3]] :
        w \in {Table(Vec(0, 0), Vec(1, 3)), Table(Vec(2, 1), Vec(3, 1))},
        n \in {<<Table(Vec(1, 0), Vec(0, 2)), Vec(1, 1), Vec(0, 0)>>,
               <<Table(Vec(0, 0), Vec(1, 1)), Vec(2, 3), Vec(1, 2)>>}}

\* Token arrays of shape [B, T].
Tokens(B, T) == [1..B -> [1..T -> 0..(VocabSize - 1)]]

\* torch.arange(T, device).unsqueeze(0).expand(B, T)
arange_expand(B, T, device) ==
    [device |-> device, rows |-> [b \in 1..B |-> [t \in 1..T |-> t - 1]]]

\* A cache key that leaves the device out.
CacheKeyNoDevice(self, B, T, device) == <<self, B, T, "any">>

\* lru_cache keys a call by its arguments, self included.
CacheKey(self, B, T, device) == <<self, B, T, device>>

CacheIndex(c, key) == {i \in 1..Len(c) : c[i].key = key}

Without(c, i) == SubSeq(c, 1, i - 1) \o SubSeq(c, i + 1, Len(c))

\* make_position_indices under functools.lru_cache: a hit returns the cached
\* tensor and makes its entry the most recent; a miss builds the tensor,
\* caches it and, past maxsize, drops the least recent entry.
make_position_indices(c, self, B, T, device) ==
    LET key == CacheKey(self, B, T, device)
    IN IF CacheIndex(c, key) # {}
       THEN LET i == CHOOSE j \in CacheIndex(c, key) : TRUE
            IN [hit |-> TRUE, value |-> c[i].value,
                cache |-> Append(Without(c, i), c[i])]
       ELSE LET value == arange_expand(B, T, device)
                grown == Append(c, [key |-> key, value |-> value])
            IN [hit |-> FALSE, value |-> value,
                cache |-> IF Len(grown) > LruMaxSize THEN Tail(grown) ELSE grown]

\* An embedding lookup that clamps an index to the table's last row.
EmbeddingClamped(table, idx) ==
    [err |-> "none",
     value |-> [b \in DOMAIN idx |-> [t \in DOMAIN idx[b] |->
                  IF idx[b][t] \in DOMAIN table THEN table[idx[b][t]]
                  ELSE table[MaxSeqLen - 1]]]]

\* nn.Embedding: the table's row for each index; an index with no row
\* raises IndexError.
Embedding(table, idx) ==
    IF \E b \in DOMAIN idx : \E t \in DOMAIN idx[b] : idx[b][t] \notin DOMAIN table
    THEN [err |-> "IndexError", value |-> <<>>]
    ELSE [err |-> "none",
          value |-> [b \in DOMAIN idx |-> [t \in DOMAIN idx[b] |-> table[idx[b][t]]]]]

Sign(x) == IF x > 0 THEN 1 ELSE IF x < 0 THEN -1 ELSE 0

\* nn.LayerNorm over a vector of two components: (x - mean) / sqrt(var + eps)
\* is +1 and -1 for the larger and the smaller component and 0 for equal
\* ones (eps = 1e-8 moves the eighth digit only), times weight, plus bias.
layer_norm(p, x) ==
    [h \in 1..HiddenSize |->
        p.weight[h] * Sign(x[h] - x[(HiddenSize + 1) - h]) + p.bias[h]]

\* nn.Dropout with p = 0.5: the identity in eval mode; in training mode an
\* element that is not kept is zero and one that is kept is doubled.
dropout(x, training, keep) ==
    IF ~training THEN x
    ELSE [h \in 1..HiddenSize |-> IF keep[h] THEN 2 * x[h] ELSE 0]

\* (tokens != padding_idx) as a number.
token_mask(tok) == IF tok # PaddingIdx THEN 1 ELSE 0

\* A forward that masks the sum of the embeddings and normalises after.
forward_mask_first(p, tokens, word_embeddings, position_embeddings, training, keep) ==
    [b \in DOMAIN tokens |-> [t \in DOMAIN tokens[b] |->
        dropout(
            layer_norm(p,
                [h \in 1..HiddenSize |->
                    (word_embeddings[b][t][h] + position_embeddings[b][t][h])
                        * token_mask(tokens[b][t])]),
            training, keep[b][t])]]

\* Lines 39..47: layer_norm of the sum, dropout, then the padding mask.
forward_embeddings(p, tokens, word_embeddings, position_embeddings, training, keep) ==
    [b \in DOMAIN tokens |-> [t \in DOMAIN tokens[b] |->
        LET normed == layer_norm(p,
                [h \in 1..HiddenSize |->
                    word_embeddings[b][t][h] + position_embeddings[b][t][h]])
            dropped == dropout(normed, training, keep[b][t])
        IN [h \in 1..HiddenSize |-> dropped[h] * token_mask(tokens[b][t])]]]

\* forward from line 35 on, given the position indices: the lookups raise
\* for an index without a row, and for indices on another device than the
\* module's (the device of its tokens).
forward_from(p, tokens, device, position_indices, training, keep) ==
    LET w == Embedding(p.words, tokens)
        q == Embedding(p.positions, position_indices.rows)
    IN IF w.err # "none" THEN [err |-> w.err, value |-> <<>>]
       ELSE IF position_indices.device # device
       THEN [err |-> "RuntimeError", value |-> <<>>]
       ELSE IF q.err # "none" THEN [err |-> q.err, value |-> <<>>]
       ELSE [err |-> "none",
             value |-> forward_embeddings(p, tokens, w.value, q.value,
                                          training, keep)]

NoCall == [fn |-> "none", self |-> "", device |-> "", B |-> 0, T |-> 0,
           tokens |-> <<>>, training |-> FALSE, params |-> <<>>]
NoPositions == [hit |-> FALSE, value |-> [device |-> "", rows |-> <<>>]]
NoOutput == [err |-> "unset", value |-> <<>>]

\* Dropout's draws for an array of shape [B, T, HiddenSize].
KeepMasks(B, T) == [1..B -> [1..T -> [1..HiddenSize -> BOOLEAN]]]
KeepAll(B, T) == [b \in 1..B |-> [t \in 1..T |-> [h \in 1..HiddenSize |-> TRUE]]]

\* self.make_position_indices(batch_size, max_sequence_length, device)
MakePositionIndices(self, B, T, device) ==
    /\ LET r == make_position_indices(cache, self, B, T, device)
       IN /\ cache' = r.cache
          /\ posOut' = [hit |-> r.hit, value |-> r.value]
    /\ call' = [fn |-> "make_position_indices", self |-> self, device |-> device,
                B |-> B, T |-> T, tokens |-> <<>>, training |-> FALSE,
                params |-> params]
    /\ out' = NoOutput
    /\ UNCHANGED <<params, cfgVars>>

\* self.forward(tokens), tokens of shape [B, T] on `device`.
Forward(self, device, B, T, tokens, training, keep) ==
    /\ LET r == make_position_indices(cache, self, B, T, device)
       IN /\ cache' = r.cache
          /\ posOut' = [hit |-> r.hit, value |-> r.value]
          /\ out' = forward_from(params, tokens, device, r.value, training, keep)
    /\ call' = [fn |-> "forward", self |-> self, device |-> device,
                B |-> B, T |-> T, tokens |-> tokens, training |-> training,
                params |-> params]
    /\ UNCHANGED <<params, cfgVars>>

\* The tables of a module no run of the model calls.
IdleParams ==
    [words |-> Table(Vec(0, 0), Vec(1, 3)), positions |-> Table(Vec(1, 0), Vec(0, 2)),
     weight |-> Vec(1, 1), bias |-> Vec(0, 0)]

(***************************************************************************)
(* Config.__init__: the stages in the order the constructor runs them.     *)
(***************************************************************************)
\* A constructor that derives parameters before it merges the list.
NextStageDerivedEarly(stage) ==
    CASE stage = "defaults" -> "file"
      [] stage = "file" -> "derived"
      [] stage = "derived" -> "list"
      [] stage = "list" -> "freeze"
      [] stage = "freeze" -> "frozen"

NextStage(stage) ==
    CASE stage = "defaults" -> "file"
      [] stage = "file" -> "list"
      [] stage = "list" -> "derived"
      [] stage = "derived" -> "freeze"
      [] stage = "freeze" -> "frozen"

NoError == [kind |-> "none", path |-> <<>>, raw |-> Unset]
NoWrite == [on |-> "none", path |-> <<>>, value |-> Unset, raised |-> FALSE]
NoReload == [err |-> "unset", tree |-> NoFile]

AllUnset == [p \in SchemaKeys |-> Unset]

\* The constructor has assigned the defaults (lines 44..185); the embedding
\* is not called.
InitConfig ==
    /\ pc = NextStage("defaults")
    /\ yacsNone \in BOOLEAN
    /\ config_file \in {"None", "yaml", "malformed"}
    /\ tree = Defaults
    /\ fileRaw = AllUnset
    /\ listRaw = AllUnset
    /\ noneSeen = {}
    /\ nFile = 0
    /\ nList = 0
    /\ err = NoError
    /\ stages = <<"defaults">>
    /\ derivedSaw = <<>>
    /\ objDict = NoFile
    /\ lastWrite = NoWrite
    /\ dumped = NoFile
    /\ reloaded = NoReload
    /\ params = IdleParams
    /\ cache = <<>>
    /\ call = NoCall
    /\ posOut = NoPositions
    /\ out = NoOutput

afterInit == <<objDict, lastWrite, dumped, reloaded>>

NoneAt(t) == {p \in SchemaKeys : t[p] = PyNone}

\* config_file is None: line 186 skips the file.
SkipFile ==
    /\ pc = "file" /\ config_file = "None"
    /\ pc' = NextStage("file")
    /\ UNCHANGED <<yacsNone, config_file, tree, fileRaw, listRaw, noneSeen, nFile, nList,
                   err, stages, derivedSaw, afterInit, embVars>>

\* The file does not parse: merge_from_file raises out of the constructor.
MalformedFile ==
    /\ pc = "file" /\ config_file = "malformed"
    /\ pc' = "error"
    /\ err' = [kind |-> "YAMLError", path |-> <<>>, raw |-> Unset]
    /\ stages' = Append(stages, "file")
    /\ UNCHANGED <<yacsNone, config_file, tree, fileRaw, listRaw, noneSeen, nFile, nList,
                   derivedSaw, afterInit, embVars>>

\* merge_from_file reaches the next key of the file (a YAML mapping names
\* a key once; yaml hands over no tuple).
MergeFileEntry(path, raw) ==
    /\ pc = "file" /\ config_file = "yaml"
    /\ nFile < MaxFile
    /\ path \in SchemaKeys => fileRaw[path] = Unset
    /\ LET r == merge_from_file(tree, path, raw, yacsNone)
       IN /\ tree' = r.tree
          /\ noneSeen' = noneSeen \cup NoneAt(r.tree)
          /\ err' = IF r.err = "none" THEN err
                     ELSE [kind |-> r.err, path |-> path, raw |-> raw]
          /\ IF r.err = "none"
             THEN /\ pc' = pc
                  /\ nFile' = nFile + 1
                  /\ stages' = stages
                  /\ fileRaw' = IF path \in SchemaKeys
                                THEN [fileRaw EXCEPT ![path] = raw]
                                ELSE fileRaw
             ELSE /\ pc' = "error"
                  /\ stages' = Append(stages, "file")
                  /\ UNCHANGED <<nFile, fileRaw>>
    /\ UNCHANGED <<yacsNone, config_file, listRaw, nList, derivedSaw, afterInit, embVars>>

\* merge_from_file returns.
FinishFile ==
    /\ pc = "file" /\ config_file = "yaml"
    /\ pc' = NextStage("file")
    /\ stages' = Append(stages, "file")
    /\ UNCHANGED <<yacsNone, config_file, tree, fileRaw, listRaw, noneSeen, nFile, nList,
                   err, derivedSaw, afterInit, embVars>>

\* merge_from_list reaches the next pair of override_list.
MergeListEntry(path, raw) ==
    /\ pc = "list"
    /\ nList < MaxList
    /\ LET r == merge_from_list(tree, path, raw, yacsNone)
       IN /\ tree' = r.tree
          /\ noneSeen' = noneSeen \cup NoneAt(r.tree)
          /\ err' = IF r.err = "none" THEN err
                     ELSE [kind |-> r.err, path |-> path, raw |-> raw]
          /\ IF r.err = "none"
             THEN /\ pc' = pc
                  /\ nList' = nList + 1
                  /\ stages' = stages
                  /\ listRaw' = IF path \in SchemaKeys
                                THEN [listRaw EXCEPT ![path] = raw]
                                ELSE listRaw
             ELSE /\ pc' = "error"
                  /\ stages' = Append(stages, "list")
                  /\ UNCHANGED <<nList, listRaw>>
    /\ UNCHANGED <<yacsNone, config_file, fileRaw, nFile, derivedSaw, afterInit, embVars>>

\* merge_from_list returns.
FinishList ==
    /\ pc = "list"
    /\ pc' = NextStage("list")
    /\ stages' = Append(stages, "list")
    /\ UNCHANGED <<yacsNone, config_file, tree, fileRaw, listRaw, noneSeen, nFile, nList,
                   err, derivedSaw, afterInit, embVars>>

\* add_derived_params: the body is `pass`.
add_derived_params ==
    /\ pc = "derived"
    /\ pc' = NextStage("derived")
    /\ stages' = Append(stages, "derived")
    /\ derivedSaw' = Append(derivedSaw, tree)
    /\ UNCHANGED <<yacsNone, config_file, tree, fileRaw, listRaw, noneSeen, nFile, nList,
                   err, afterInit, embVars>>

\* self._C.freeze()
freeze ==
    /\ pc = "freeze"
    /\ pc' = NextStage("freeze")
    /\ stages' = Append(stages, "freeze")
    /\ UNCHANGED <<yacsNone, config_file, tree, fileRaw, listRaw, noneSeen, nFile, nList,
                   err, derivedSaw, afterInit, embVars>>

(***************************************************************************)
(* The constructed object: attribute writes, reads, dump.                  *)
(***************************************************************************)
construction == <<pc, yacsNone, config_file, tree, fileRaw, listRaw, noneSeen,
                  nFile,
                  nList, err, stages, derivedSaw>>

\* CfgNode.__setattr__ on a node of the tree (cfg.OPTIM.BATCH_SIZE = v,
\* cfg._C.RANDOM_SEED = v): a frozen node raises and stores nothing.
CfgNodeSetattr(t, frozen, path, value) ==
    IF frozen
    THEN [raised |-> TRUE, tree |-> t]
    ELSE [raised |-> FALSE, tree |-> Put(t, path, value)]

WritePaths == {BATCH_SIZE}
WriteNames == {"RANDOM_SEED"}
WriteValue == PyInt(1)

SetAttrNode(path) ==
    /\ pc = "frozen"
    /\ dumped = NoFile
    /\ LET r == CfgNodeSetattr(tree, pc = "frozen", path, WriteValue)
       IN /\ tree' = r.tree
          /\ lastWrite' = [on |-> "node", path |-> path, value |-> WriteValue,
                           raised |-> r.raised]
    /\ UNCHANGED <<pc, yacsNone, config_file, fileRaw, listRaw, noneSeen, nFile, nList,
                   err, stages, derivedSaw, objDict, dumped, reloaded,
                   embVars>>

\* cfg.NAME = v on the Config object: the class defines __getattr__ only,
\* so object.__setattr__ binds NAME in the instance's __dict__.
SetAttrConfig(name) ==
    /\ pc = "frozen"
    /\ dumped = NoFile
    /\ objDict' = Put(objDict, name, WriteValue)
    /\ lastWrite' = [on |-> "Config", path |-> <<name>>, value |-> WriteValue,
                     raised |-> FALSE]
    /\ UNCHANGED <<construction, dumped, reloaded, embVars>>

AttributeError == V("AttributeError", 0, "", <<>>)

\* cfg.A.B.C: Python finds A in the instance's __dict__ first and calls
\* Config.__getattr__, which asks self._C, only when A is not there.
ReadAttr(path) ==
    IF path[1] \in DOMAIN objDict
    THEN IF Len(path) = 1 THEN objDict[path[1]] ELSE AttributeError
    ELSE tree[path]

\* Config.dump(file_path)
dump ==
    /\ pc = "frozen"
    /\ dumped = NoFile
    /\ lastWrite = NoWrite
    /\ dumped' = CfgDump(tree)
    /\ UNCHANGED <<construction, objDict, lastWrite, reloaded, embVars>>

\* Config(config_file = the dumped file), a fresh object.
Reload ==
    /\ dumped # NoFile
    /\ reloaded = NoReload
    /\ reloaded' = ConfigFromFile(dumped, yacsNone)
    /\ UNCHANGED <<construction, objDict, lastWrite, dumped, embVars>>

CfgNext ==
    \/ SkipFile
    \/ MalformedFile
    \/ \E o \in Overrides : MergeFileEntry(o.path, o.raw)
    \/ FinishFile
    \/ \E o \in Overrides : MergeListEntry(o.path, o.raw)
    \/ FinishList
    \/ add_derived_params
    \/ freeze
    \/ \E path \in WritePaths : SetAttrNode(path)
    \/ \E name \in WriteNames : SetAttrConfig(name)
    \/ dump
    \/ Reload

SpecConfig == InitConfig /\ [][CfgNext]_vars

(***************************************************************************)
(* Properties of the configuration store.                                  *)
(***************************************************************************)
\* The value an accepted override leaves in the tree: the decoded value,
\* a tuple as the list of its items.
Denoted(raw) ==
    LET v == _decode_cfg_value(raw)
    IN IF v.t = "tuple" THEN PyList(v.l) ELSE v

\* The tree the overrides accepted so far call for: the list's last value
\* for a key, else the file's, else the default.
ExpectedTree ==
    [p \in SchemaKeys |->
        IF listRaw[p] # Unset THEN Denoted(listRaw[p])
        ELSE IF fileRaw[p] # Unset THEN Denoted(fileRaw[p])
        ELSE Defaults[p]]

\* C1: in a frozen Config every key the override list names holds the value
\* of the last list entry naming it, whatever the file or an earlier entry
\* gave for that key.
C1_OverridePrecedence ==
    pc = "frozen" =>
        \A p \in SchemaKeys : listRaw[p] # Unset => tree[p] = Denoted(listRaw[p])

\* The docstring's scenario: default 256, file 512, list 1024 reads 1024.
C1_Witness ==
    /\ pc = "frozen"
    /\ fileRaw[BATCH_SIZE] = PyInt(512)
    /\ listRaw[BATCH_SIZE] = PyInt(1024)
    /\ nList = 2
    /\ tree[BATCH_SIZE] = PyInt(1024)

\* C2 (as claimed): once the Config is frozen every attribute write that has
\* been attempted, on the Config object or on a nested node, raised, and
\* every key still reads as it did before the attempt.
C2_EveryWriteRaises ==
    lastWrite.on # "none" =>
        /\ lastWrite.raised
        /\ \A p \in SchemaKeys : ReadAttr(p) = ExpectedTree[p]

C4_RoundTrip ==
    reloaded # NoReload => reloaded.err = "none" /\ reloaded.tree = tree

\* C5 (as claimed): every frozen Config has 0 <= MASK_PROPORTION < 1 and
\* MASK_PROBABILITY + REPLACE_PROBABILITY <= 1 (floats in hundredths).
C5_WordMaskingConstraints ==
    pc = "frozen" =>
        /\ 0 <= tree[MASK_PROPORTION].n /\ tree[MASK_PROPORTION].n < 100
        /\ tree[MASK_PROBABILITY].n + tree[REPLACE_PROBABILITY].n <= 100

\* The overrides the file and the list had accepted, as (key, value).
Accepted ==
    {Ov(p, fileRaw[p]) : p \in {q \in SchemaKeys : fileRaw[q] # Unset}}
    \cup {Ov(p, listRaw[p]) : p \in {q \in SchemaKeys : listRaw[q] # Unset}}

\* C6 (as claimed): every accepted override carried a value of the type of
\* the schema default at its path, and every key of the tree holds a value
\* of that type.
C6_TypeMismatchFatal ==
    /\ \A o \in Accepted : _decode_cfg_value(o.raw).t = Defaults[o.path].t
    /\ \A p \in SchemaKeys : tree[p].t = Defaults[p].t

\* C6 (amended): a refused override of another type stores nothing; an
\* accepted override carried the type of the schema default, or a tuple for
\* a list, or, where the installed yacs admits None, was None or went to a
\* key that had held None; and every key at which no None was stored holds
\* a value of the type of its schema default.
C6_TypeMismatchFatalButCasts ==
    /\ err.kind = "TypeMismatch" =>
          /\ pc = "error"
          /\ tree = ExpectedTree
          /\ _decode_cfg_value(err.raw).t # Lookup(tree, err.path).t
    /\ \A o \in Accepted :
          LET v == _decode_cfg_value(o.raw)
          IN \/ v.t = Defaults[o.path].t
             \/ v.t = "tuple" /\ Defaults[o.path].t = "list"
             \/ yacsNone /\ o.path \in noneSeen
    /\ \A p \in SchemaKeys \ noneSeen : tree[p].t = Defaults[p].t
    /\ ~yacsNone => noneSeen = {}

\* A float for the int OPTIM.BATCH_SIZE is refused, after a tuple for the
\* list OPTIM.LR_STEPS was stored as a list.
C6_Witness ==
    /\ pc = "error"
    /\ err.kind = "TypeMismatch"
    /\ err.path = BATCH_SIZE
    /\ err.raw = PyFloat(150)
    /\ fileRaw[LR_STEPS] = PyStr("(1, 2)")
    /\ tree[LR_STEPS] = PyList(<<1, 2>>)

StagesOf(file) ==
    IF file = "None"
    THEN <<"defaults", "list", "derived", "freeze">>
    ELSE <<"defaults", "file", "list", "derived", "freeze">>

IsPrefix(a, b) == Len(a) <= Len(b) /\ a = SubSeq(b, 1, Len(a))

\* C7: the stages run in the order defaults, file (unless config_file is
\* None), list, add_derived_params, freeze; add_derived_params runs once, on
\* the tree every accepted override has been applied to, and the frozen
\* tree is the tree it saw.
C7_StageOrder ==
    /\ IsPrefix(stages, StagesOf(config_file))
    /\ Len(derivedSaw) <= 1
    /\ pc = "frozen" =>
          /\ stages = StagesOf(config_file)
          /\ Len(derivedSaw) = 1
          /\ derivedSaw[1] = ExpectedTree
          /\ tree = derivedSaw[1]

\* A frozen Config built from a file and a list that both changed keys,
\* after a write was attempted on it.
C7_Witness ==
    /\ pc = "frozen"
    /\ config_file = "yaml"
    /\ nFile = 2
    /\ nList = 2
    /\ lastWrite.on = "node"
    /\ tree # Defaults

(***************************************************************************)
(* The embedding's specifications.                                         *)
(***************************************************************************)
\* The embedding's runs leave the configuration store as the defaults.
CfgIdle ==
    /\ pc = NextStage("defaults")
    /\ yacsNone = FALSE
    /\ config_file = "None"
    /\ tree = Defaults
    /\ fileRaw = AllUnset
    /\ listRaw = AllUnset
    /\ noneSeen = {}
    /\ nFile = 0
    /\ nList = 0
    /\ err = NoError
    /\ stages = <<"defaults">>
    /\ derivedSaw = <<>>
    /\ objDict = NoFile
    /\ lastWrite = NoWrite
    /\ dumped = NoFile
    /\ reloaded = NoReload

\* A module constructed with any of the tables, nothing cached.
InitForward ==
    /\ CfgIdle
    /\ params \in ParamSets
    /\ cache = <<>>
    /\ call = NoCall
    /\ posOut = NoPositions
    /\ out = NoOutput

\* forward on one module and one device. In eval mode: every token array
\* of one or two rows and up to MaxSeqLen columns.
ForwardEval ==
    \E B \in BatchSizes, T \in 1..MaxSeqLen : \E tokens \in Tokens(B, T) :
        Forward("m1", "cpu", B, T, tokens, FALSE, KeepAll(B, T))

\* Rows longer than the position table, the same row for every example.
ForwardTooLong ==
    \E B \in BatchSizes : \E row \in [1..(MaxSeqLen + 1) -> 0..(VocabSize - 1)] :
        Forward("m1", "cpu", B, MaxSeqLen + 1, [b \in 1..B |-> row], FALSE,
                KeepAll(B, MaxSeqLen + 1))

\* In training mode: one row with one padding token, and every draw of
\* dropout.
OnePadding(T) ==
    {row \in [1..T -> 0..(VocabSize - 1)] :
        Cardinality({t \in 1..T : row[t] = PaddingIdx}) = 1}

ForwardTraining ==
    \E T \in 1..MaxSeqLen : \E row \in OnePadding(T), keep \in KeepMasks(1, T) :
        Forward("m1", "cpu", 1, T, <<row>>, TRUE, keep)

ForwardNext == ForwardEval \/ ForwardTooLong \/ ForwardTraining

SpecForward == InitForward /\ [][ForwardNext]_vars

\* The cache under calls from two modules on two devices: direct calls of
\* make_position_indices and eval-mode forwards of one row.
CachedCall ==
    \E self \in Instances, device \in Devices, B \in BatchSizes, T \in 1..MaxSeqLen :
        MakePositionIndices(self, B, T, device)

CachedForward ==
    \E self \in Instances, device \in Devices, T \in 1..MaxSeqLen :
        \E tokens \in Tokens(1, T) :
            Forward(self, device, 1, T, tokens, FALSE, KeepAll(1, T))

CacheNext == CachedCall \/ CachedForward

\* Two modules constructed with one of the two word tables, nothing cached.
InitCache ==
    /\ CfgIdle
    /\ params \in {q \in ParamSets : q.bias = Vec(1, 2)}
    /\ cache = <<>>
    /\ call = NoCall
    /\ posOut = NoPositions
    /\ out = NoOutput

SpecCache == InitCache /\ [][CacheNext]_vars

(***************************************************************************)
(* Properties of the embedding.                                            *)
(***************************************************************************)
Returned == call.fn = "forward" /\ out.err = "none"

\* C8: in whatever forward returns, the vector at every position whose
\* token is the padding token is all zeros, for every row, in eval and in
\* training mode, whatever the tables and the layer-norm weight and bias.
C8_PaddingIsZero ==
    Returned =>
        \A b \in DOMAIN call.tokens : \A t \in DOMAIN call.tokens[b] :
            call.tokens[b][t] = PaddingIdx =>
                \A h \in 1..HiddenSize : out.value[b][t][h] = 0

\* A training-mode forward under a non-zero bias and position table, with
\* padding at the second position and a non-zero vector at the first.
C8_Witness ==
    /\ Returned
    /\ call.training
    /\ call.tokens = <<(<<1, PaddingIdx>>)>>
    /\ params.bias = Vec(1, 2)
    /\ out.value[1][1] # Vec(0, 0)
    /\ out.value[1][2] = Vec(0, 0)

\* C9: forward on [B, T] tokens returns an array of shape
\* [B, T, HiddenSize] when T <= MaxSeqLen; when T > MaxSeqLen it raises
\* IndexError, returns nothing, and the tables are those before the call.
C9_ShapeContract ==
    call.fn = "forward" =>
        /\ call.T <= MaxSeqLen =>
              /\ out.err = "none"
              /\ DOMAIN out.value = 1..call.B
              /\ \A b \in 1..call.B :
                    /\ DOMAIN out.value[b] = 1..call.T
                    /\ \A t \in 1..call.T : DOMAIN out.value[b][t] = 1..HiddenSize
        /\ call.T > MaxSeqLen =>
              /\ out.err = "IndexError"
              /\ out.value = <<>>
              /\ params = call.params

\* A forward of two rows of MaxSeqLen + 1 tokens raised.
C9_Witness ==
    /\ call.fn = "forward"
    /\ call.B = 2
    /\ call.T = MaxSeqLen + 1
    /\ out.err = "IndexError"

\* C10: whatever was called before, make_position_indices returns, for
\* (B, T, device), B rows 0..T-1 on that device, the cache holds at most
\* LruMaxSize entries, and an eval-mode forward returns what it computes
\* from freshly built position indices.
C10_CacheAgreesWithUncached ==
    /\ Len(cache) <= LruMaxSize
    /\ call.fn # "none" =>
          /\ posOut.value.device = call.device
          /\ DOMAIN posOut.value.rows = 1..call.B
          /\ \A b \in 1..call.B : posOut.value.rows[b] = [t \in 1..call.T |-> t - 1]
    /\ call.fn = "forward" =>
          out = forward_from(params, call.tokens, call.device,
                             [device |-> call.device,
                              rows |-> [b \in 1..call.B |-> [t \in 1..call.T |-> t - 1]]],
                             FALSE, KeepAll(call.B, call.T))

\* A forward on cuda:0 answered from a full cache that also holds the
\* entry of the same module and shape for cpu.
C10_Witness ==
    /\ call.fn = "forward"
    /\ call.device = "cuda:0"
    /\ posOut.hit
    /\ Len(cache) = LruMaxSize
    /\ \E i \in 1..Len(cache) : cache[i].key = <<call.self, call.B, call.T, "cpu">>
    /\ out.err = "none"
====
